---- MODULE Spec2Model ----
(***************************************************************************)
(* Model of the CI/CD monitor (monitoring/monitor.py): quantity parsing,   *)
(* the health rules, run_health_checks, send_alerts and the scheduler of   *)
(* main.                                                                   *)
(*                                                                         *)
(* Conventions.                                                            *)
(*  - A Python string that the code inspects character by character (a     *)
(*    quantity such as "500m") is a sequence of one-character strings.     *)
(*  - A number is the value m * 2^e with m a natural of any size kept as   *)
(*    its bits; float operations round as binary64 does.                   *)
(*  - An issue keeps the fields type, severity and resource; the message   *)
(*    and the timestamp are formatted from the same data and are left out. *)
(*    A resource "a/b" is the tuple <<"a", "b">>.                          *)
(*  - A function that can raise returns a record with a field saying so.   *)
(***************************************************************************)
EXTENDS Integers, Sequences, FiniteSets, TLC

\* ------------------------------------------------------------------------
\* Bounds of the model
\* ------------------------------------------------------------------------
\* number of cycles of the continuous loop that are explored
MaxCycles == 2
\* length of time.sleep(args.interval), in clock ticks
Interval == 2

\* ------------------------------------------------------------------------
\* Small helpers
\* ------------------------------------------------------------------------
\* dict.get(key, default) on a function whose DOMAIN holds the present keys
Get(d, key, default) == IF key \in DOMAIN d THEN d[key] ELSE default

\* s[:n]
Prefix(s, n) == SubSeq(s, 1, IF n < Len(s) THEN n ELSE Len(s))

\* concatenation of a sequence of sequences
RECURSIVE Flatten(_)
Flatten(ss) == IF ss = <<>> THEN <<>> ELSE Head(ss) \o Flatten(Tail(ss))

Range(s) == {s[i] : i \in DOMAIN s}

\* ------------------------------------------------------------------------
\* Python numbers.  An int is a natural of any size; a float is a binary64
\* value, and every float operation rounds its exact result to the nearest
\* float, ties to even.
\* ------------------------------------------------------------------------
\* naturals of any size: the bits of the number, least significant first,
\* without leading zeros (0 is the empty sequence)
\* a without its leading zeros
BigTrim(a) ==
    IF a = <<>> THEN <<>>
    ELSE IF a[Len(a)] = 1 THEN a
    ELSE LET ones == {i \in DOMAIN a : a[i] = 1}
         IN IF ones = {} THEN <<>>
            ELSE SubSeq(a, 1, CHOOSE i \in ones : \A j \in ones : j <= i)

\* a >= b
BigGeq(a, b) ==
    IF Len(a) # Len(b) THEN Len(a) > Len(b)
    ELSE LET diff == {i \in DOMAIN a : a[i] # b[i]}
         IN diff = {} \/ a[CHOOSE i \in diff : \A j \in diff : j <= i] = 1

BigBit(a, i) == IF i <= Len(a) THEN a[i] ELSE 0

\* addition and subtraction go byte by byte: the value of the bits
\* 8k-7..8k of a, and the eight bits of a byte
Byte(a, k) ==
    ((BigBit(a, 8 * k - 7) + 2 * BigBit(a, 8 * k - 6))
        + (4 * BigBit(a, 8 * k - 5) + 8 * BigBit(a, 8 * k - 4)))
    + ((16 * BigBit(a, 8 * k - 3) + 32 * BigBit(a, 8 * k - 2))
        + (64 * BigBit(a, 8 * k - 1) + 128 * BigBit(a, 8 * k)))
ByteBits(v) ==
    <<v % 2, (v \div 2) % 2, (v \div 4) % 2, (v \div 8) % 2,
      (v \div 16) % 2, (v \div 32) % 2, (v \div 64) % 2, (v \div 128) % 2>>

\* the bits of a number given by its bytes
BigOfBytes(bytes) ==
    IF Len(bytes) = 0 THEN <<>>
    ELSE BigTrim([i \in 1..(8 * Len(bytes)) |->
                    ByteBits(bytes[(i + 7) \div 8])[((i - 1) % 8) + 1]])

\* the bits of an int below 2^31, and the int of at most 31 bits
BigOf(n) ==
    BigOfBytes(<<n % 256, (n \div 256) % 256, (n \div 65536) % 256, n \div 16777216>>)
BigToInt(a) ==
    (Byte(a, 1) + 256 * Byte(a, 2)) + (65536 * Byte(a, 3) + 16777216 * Byte(a, 4))

\* the bytes of a + b, sums being the sums of their bytes: a byte takes a
\* carry when a byte below it overflows and every byte between is full
BigAddBytes(sums) ==
    IF Len(sums) = 0 THEN <<>>
    ELSE [k \in DOMAIN sums |->
            (sums[k] + (IF \E j \in 1..(k - 1) :
                              /\ sums[j] > 255
                              /\ \A m \in (j + 1)..(k - 1) : sums[m] = 255
                        THEN 1 ELSE 0)) % 256]
\* a + b
BigAdd(a, b) ==
    IF a = <<>> THEN b
    ELSE IF b = <<>> THEN a
    ELSE BigOfBytes(<<>> \o BigAddBytes(
        <<>> \o [k \in 1..((IF Len(a) > Len(b) THEN Len(a) ELSE Len(b)) \div 8 + 1) |->
                    Byte(a, k) + Byte(b, k)]))

\* the bytes of a - b, diffs being the differences of their bytes: a byte
\* gives a borrow when a byte below it is negative and every byte between
\* is zero
BigSubBytes(diffs) ==
    IF Len(diffs) = 0 THEN <<>>
    ELSE [k \in DOMAIN diffs |->
            (diffs[k] - (IF \E j \in 1..(k - 1) :
                               /\ diffs[j] < 0
                               /\ \A m \in (j + 1)..(k - 1) : diffs[m] = 0
                         THEN 1 ELSE 0)) % 256]
\* a - b for a >= b
BigSub(a, b) ==
    BigOfBytes(<<>> \o BigSubBytes(
        <<>> \o [k \in 1..(Len(a) \div 8 + 1) |-> Byte(a, k) - Byte(b, k)]))

\* a * 2^k
BigShl(a, k) == IF a = <<>> THEN <<>> ELSE [i \in 1..k |-> 0] \o a
\* a \div 2^k
BigShr(a, k) == SubSeq(a, k + 1, Len(a))

\* a * b: the sum of a * 2^(i-1) over the bits i of b that are set, here
\* over the bits lo..hi
RECURSIVE BigMulRange(_, _, _, _)
BigMulRange(a, b, lo, hi) ==
    IF lo = hi
    THEN IF b[lo] = 1 THEN BigShl(a, lo - 1) ELSE <<>>
    ELSE BigAdd(BigMulRange(a, b, lo, (lo + hi) \div 2),
                BigMulRange(a, b, (lo + hi) \div 2 + 1, hi))
BigMul(a, b) == IF a = <<>> \/ b = <<>> THEN <<>> ELSE BigMulRange(a, b, 1, Len(b))

\* long division of num by den over the bits lo..hi of num, highest first,
\* entered with the remainder r of the bits above hi; the result is
\* <<quotient bits lo..hi, remainder>>. Once nothing is left to divide, the
\* remaining quotient bits are zero. A range of several bits is divided in
\* up to eight parts of width w, one after the other from the highest, so
\* that the evaluation stays shallow.
RECURSIVE BigDivRange(_, _, _, _, _)
BigDivPart(num, den, lo, hi, w, k, r) ==
    IF hi - (k - 1) * w < lo THEN <<(<<>>), r>>
    ELSE BigDivRange(num, den, IF hi - k * w + 1 > lo THEN hi - k * w + 1 ELSE lo,
                     hi - (k - 1) * w, r)
BigDivRange(num, den, lo, hi, r) ==
    IF r = <<>> /\ \A i \in lo..hi : num[i] = 0
    THEN <<[i \in 1..(hi - lo + 1) |-> 0], <<>>>>
    ELSE IF lo = hi
    THEN IF BigGeq(<<num[lo]>> \o r, den)
         THEN <<(<<1>>), BigSub(<<num[lo]>> \o r, den)>>
         ELSE <<(<<0>>), <<num[lo]>> \o r>>
    ELSE LET w == (hi - lo + 8) \div 8
             p1 == BigDivPart(num, den, lo, hi, w, 1, r)
             p2 == BigDivPart(num, den, lo, hi, w, 2, p1[2])
             p3 == BigDivPart(num, den, lo, hi, w, 3, p2[2])
             p4 == BigDivPart(num, den, lo, hi, w, 4, p3[2])
             p5 == BigDivPart(num, den, lo, hi, w, 5, p4[2])
             p6 == BigDivPart(num, den, lo, hi, w, 6, p5[2])
             p7 == BigDivPart(num, den, lo, hi, w, 7, p6[2])
             p8 == BigDivPart(num, den, lo, hi, w, 8, p7[2])
             parts == <<p1, p2, p3, p4, p5, p6, p7, p8>>
         IN <<parts[8][1] \o (parts[7][1] \o (parts[6][1] \o (parts[5][1]
                \o (parts[4][1] \o (parts[3][1] \o (parts[2][1] \o parts[1][1])))))),
              parts[8][2]>>
\* <<num \div den, num % den>>
BigDivTrim(qr) == <<BigTrim(qr[1]), qr[2]>>
BigDivMod(num, den) ==
    IF Len(num) < Len(den) THEN <<(<<>>), num>>
    ELSE BigDivTrim(BigDivRange(num, den, 1, Len(num) - Len(den) + 1,
                                SubSeq(num, Len(num) - Len(den) + 2, Len(num))))

\* a float: the value m * 2^e
Float(m, e) == [m |-> m, e |-> e]

\* m * 2^e with the exponent raised by k
Scaled(x, k) == Float(x.m, x.e + k)

\* the float nearest to q/2^s, ties to even, for a quotient q of 54 or 55
\* bits that was left with the remainder r: the bits beyond the 53rd and the
\* remainder decide the direction
RoundBits(q, r, s) ==
    LET extra == Len(q) - 53
        m0 == BigShr(q, extra)
        low == BigToInt(SubSeq(q, 1, extra))
        half == IF extra = 1 THEN 1 ELSE 2
        up == \/ low > half
              \/ low = half /\ r # <<>>
              \/ low = half /\ r = <<>> /\ m0[1] = 1
    IN Float(IF up THEN BigAdd(m0, <<1>>) ELSE m0, extra - s)
\* an exact quotient of at most 53 bits is itself
RoundPair(qr, s) ==
    IF Len(qr[1]) <= 53 /\ qr[2] = <<>> THEN Float(qr[1], 0 - s)
    ELSE RoundBits(qr[1], qr[2], s)

\* the float nearest to a/b (ties to even) for naturals a and b > 0: an
\* exact small quotient is itself; otherwise a/b is scaled by 2^s to a
\* quotient of 54 or 55 bits
RoundDiv(a, b) ==
    IF a = <<>> THEN Float(<<>>, 0)
    ELSE IF Len(a) <= 30 /\ Len(b) <= 30 /\ BigToInt(a) % BigToInt(b) = 0
    THEN Float(BigOf(BigToInt(a) \div BigToInt(b)), 0)
    ELSE RoundPair(BigDivMod(BigShl(a, IF Len(a) - Len(b) <= 54
                                       THEN 54 - (Len(a) - Len(b)) ELSE 0),
                             BigShl(b, IF Len(a) - Len(b) <= 54
                                       THEN 0 ELSE (Len(a) - Len(b)) - 54)),
                   54 - (Len(a) - Len(b)))

\* the float nearest to the natural p * 2^e
RoundBig(p, e) ==
    IF Len(p) <= 53 THEN Float(p, e) ELSE Scaled(RoundDiv(p, <<1>>), e)

\* x / y and x * y of floats
FloatDiv(x, y) == Scaled(RoundDiv(x.m, y.m), x.e - y.e)
FloatMul(x, y) ==
    IF x.m = <<>> \/ y.m = <<>> THEN Float(<<>>, 0)
    ELSE RoundBig(BigMul(x.m, y.m), x.e + y.e)

\* x > k for a float x and a natural k
FloatAbove(x, k) ==
    IF x.e >= 0 THEN ~BigGeq(BigOf(k), BigShl(x.m, x.e))
    ELSE ~BigGeq(BigShl(BigOf(k), 0 - x.e), x.m)

\* int(x) of a float x >= 0: the integer part
FloatToBig(x) == IF x.e >= 0 THEN BigShl(x.m, x.e) ELSE BigShr(x.m, 0 - x.e)

\* ------------------------------------------------------------------------
\* Quantity parser
\* ------------------------------------------------------------------------
Digits == <<"0", "1", "2", "3", "4", "5", "6", "7", "8", "9">>
IsDigit(c) == \E i \in 1..10 : Digits[i] = c
DigitVal(c) == (CHOOSE i \in 1..10 : Digits[i] = c) - 1

\* value of a sequence of digits
RECURSIVE DigitsVal(_)
DigitsVal(s) ==
    IF s = <<>> THEN 0
    ELSE DigitsVal(SubSeq(s, 1, Len(s) - 1)) * 10 + DigitVal(s[Len(s)])

\* value of a sequence of digits of any length, as an integer of Python:
\* nine digits at a time
RECURSIVE BigDigitsVal(_)
BigDigitsVal(s) ==
    IF Len(s) <= 9 THEN BigOf(DigitsVal(s))
    ELSE BigAdd(BigMul(BigDigitsVal(SubSeq(s, 1, Len(s) - 9)), BigOf(1000000000)),
                BigOf(DigitsVal(SubSeq(s, Len(s) - 8, Len(s)))))

\* a parsed number: the value m * 2^e, or the ValueError of int() / float()
Number(x) == [ok |-> TRUE, m |-> x.m, e |-> x.e]
ValueError == [ok |-> FALSE, m |-> <<>>, e |-> 0]

\* int(s) of an unsigned string: a nonempty run of digits, else ValueError
PyInt(s) ==
    IF s # <<>> /\ \A i \in DOMAIN s : IsDigit(s[i])
    THEN Number(Float(BigDigitsVal(s), 0))
    ELSE ValueError

\* float(s) of an unsigned string: digits with at most one ".", at least
\* one digit, else ValueError; the value is the float nearest to the decimal
PyFloat(s) ==
    LET dots == {i \in DOMAIN s : s[i] = "."}
        digs == {i \in DOMAIN s : IsDigit(s[i])}
    IN IF digs # {} /\ Cardinality(dots) <= 1 /\ dots \cup digs = DOMAIN s
       THEN IF dots = {}
            THEN Number(RoundBig(BigDigitsVal(s), 0))
            ELSE LET p == CHOOSE i \in dots : TRUE
                 IN Number(RoundDiv(
                        BigDigitsVal(SubSeq(s, 1, p - 1) \o SubSeq(s, p + 1, Len(s))),
                        BigDigitsVal(<<"1">> \o [i \in 1..(Len(s) - p) |-> "0"])))
       ELSE ValueError

\* s.endswith(suffix)
EndsWith(s, suffix) ==
    /\ Len(s) >= Len(suffix)
    /\ SubSeq(s, Len(s) - Len(suffix) + 1, Len(s)) = suffix

\* float(cpu_str[:-1]) / 1000, f being the float() or its ValueError
Millicores(f) ==
    IF f.ok THEN Number(FloatDiv(f, Float(BigOf(1000), 0))) ELSE ValueError

\* CICDMonitor._parse_cpu: cores as a float
_parse_cpu(cpu_str) ==
    IF cpu_str = <<>> THEN Number(Float(<<>>, 0))
    ELSE IF EndsWith(cpu_str, <<"m">>)
    THEN Millicores(PyFloat(SubSeq(cpu_str, 1, Len(cpu_str) - 1)))
    ELSE PyFloat(cpu_str)

\* the units table of _parse_memory, in iteration order
MemoryUnits == << <<"K", "i">>, <<"M", "i">>, <<"G", "i">>, <<"T", "i">> >>
\* 1024^i
MemoryMultiplier(i) == Float(BigOf(1), 10 * i)

\* int(float(memory_str[:-len(unit)]) * multiplier) for the i-th unit, f
\* being the float() or its ValueError
Bytes(f, i) ==
    IF f.ok THEN Number(Float(FloatToBig(FloatMul(f, MemoryMultiplier(i))), 0))
    ELSE ValueError

\* CICDMonitor._parse_memory: bytes, truncated to an integer
_parse_memory(memory_str) ==
    IF memory_str = <<>> THEN Number(Float(<<>>, 0))
    ELSE IF \E i \in DOMAIN MemoryUnits : EndsWith(memory_str, MemoryUnits[i])
    THEN Bytes(PyFloat(SubSeq(memory_str, 1, Len(memory_str) - 2)),
               CHOOSE j \in DOMAIN MemoryUnits :
                   /\ EndsWith(memory_str, MemoryUnits[j])
                   /\ \A k \in 1..(j - 1) : ~EndsWith(memory_str, MemoryUnits[k]))
    ELSE PyInt(memory_str)

\* the multipliers of the units table of CICDUtils._parse_memory: 1/1024,
\* 1, 1024 and 1024*1024
UtilsMemoryMultiplier(i) == Float(BigOf(1), 10 * (i - 2))

\* int(float(memory_str[:-2]) * multiplier) for the i-th unit of
\* CICDUtils._parse_memory, f being the float() or its ValueError
MiB(f, i) ==
    IF f.ok THEN Number(Float(FloatToBig(FloatMul(f, UtilsMemoryMultiplier(i))), 0))
    ELSE ValueError

\* int(memory_str) // (1024 * 1024), n being the int() or its ValueError
BytesToMiB(n) == IF n.ok THEN Number(Float(BigShr(n.m, 20), 0)) ELSE ValueError

\* CICDUtils._parse_memory of the utility script: MiB, truncated to an
\* integer
CICDUtils_parse_memory(memory_str) ==
    IF memory_str = <<>> \/ memory_str = <<"0">> THEN Number(Float(<<>>, 0))
    ELSE IF \E i \in DOMAIN MemoryUnits : EndsWith(memory_str, MemoryUnits[i])
    THEN MiB(PyFloat(SubSeq(memory_str, 1, Len(memory_str) - 2)),
             CHOOSE j \in DOMAIN MemoryUnits :
                 /\ EndsWith(memory_str, MemoryUnits[j])
                 /\ \A k \in 1..(j - 1) : ~EndsWith(memory_str, MemoryUnits[k]))
    ELSE BytesToMiB(PyInt(memory_str))

\* ------------------------------------------------------------------------
\* Issues
\* ------------------------------------------------------------------------
Issue(type, severity, resource) ==
    [type |-> type, severity |-> severity, resource |-> resource]

\* the issue of the `except ApiException` branches
ApiErrorIssue(namespace) == Issue("api_error", "critical", <<"namespace", namespace>>)

\* result of a function that returned a list of issues
Returned(issues) == [raised |-> FALSE, kind |-> "none", issues |-> issues]
\* result of a function left by an exception that it does not handle
Raised(kind) == [raised |-> TRUE, kind |-> kind, issues |-> <<>>]

\* ------------------------------------------------------------------------
\* Health rules.  A collector call returns [kind |-> "ok", items |-> ...],
\* raises ApiException (kind "ApiException") or raises another exception
\* (kind "Exception").
\* ------------------------------------------------------------------------
\* DeploymentIssues with the severity of a deficit not depending on the
\* ready count
DeploymentIssuesWarningOnly(namespace, deployment, thresholds) ==
    LET name == deployment.name
        spec_replicas == Get(deployment, "replicas", 0)
        ready_replicas == Get(deployment, "ready_replicas", 0)
        age_days == deployment.age_hours \div 24
        max_age_days == Get(thresholds, "max_deployment_age_days", 90)
    IN (IF ready_replicas < spec_replicas
        THEN << Issue("deployment_unhealthy", "warning", <<namespace, name>>) >>
        ELSE <<>>)
       \o
       (IF age_days > max_age_days
        THEN << Issue("deployment_old", "info", <<namespace, name>>) >>
        ELSE <<>>)

\* body of the loop of check_deployment_health for one deployment; a count
\* that is None is an absent field of the record and reads as 0 (`or 0`)
DeploymentIssues(namespace, deployment, thresholds) ==
    LET name == deployment.name
        spec_replicas == Get(deployment, "replicas", 0)
        ready_replicas == Get(deployment, "ready_replicas", 0)
        age_days == deployment.age_hours \div 24
        max_age_days == Get(thresholds, "max_deployment_age_days", 90)
    IN (IF ready_replicas < spec_replicas
        THEN << Issue("deployment_unhealthy",
                      IF ready_replicas = 0 THEN "critical" ELSE "warning",
                      <<namespace, name>>) >>
        ELSE <<>>)
       \o
       (IF age_days > max_age_days
        THEN << Issue("deployment_old", "info", <<namespace, name>>) >>
        ELSE <<>>)

check_deployment_health(namespace, result, thresholds) ==
    IF result.kind = "ApiException" THEN Returned(<<ApiErrorIssue(namespace)>>)
    ELSE IF result.kind = "Exception" THEN Raised("collector")
    ELSE Returned(Flatten([i \in DOMAIN result.items |->
                     DeploymentIssues(namespace, result.items[i], thresholds)]))

\* ContainerIssues with the comparison not strict
ContainerIssuesAtThreshold(namespace, name, container_status, thresholds) ==
    LET restart_count == container_status.restart_count
        max_restarts == Get(thresholds, "max_container_restarts", 5)
    IN IF restart_count >= max_restarts
       THEN << Issue("high_restart_count", "warning",
                     <<namespace, name, container_status.name>>) >>
       ELSE <<>>

\* the restart rule for one container status
ContainerIssues(namespace, name, container_status, thresholds) ==
    LET restart_count == container_status.restart_count
        max_restarts == Get(thresholds, "max_container_restarts", 5)
    IN IF restart_count > max_restarts
       THEN << Issue("high_restart_count", "warning",
                     <<namespace, name, container_status.name>>) >>
       ELSE <<>>

\* body of the loop of check_pod_health for one pod
PodIssues(namespace, pod, thresholds) ==
    LET name == pod.name
        phase == pod.phase
    IN (IF phase = "Failed"
        THEN << Issue("pod_failed", "critical", <<namespace, name>>) >>
        ELSE IF phase = "Pending" /\ pod.age_seconds > 300
        THEN << Issue("pod_pending", "warning", <<namespace, name>>) >>
        ELSE <<>>)
       \o
       Flatten([i \in DOMAIN pod.container_statuses |->
                  ContainerIssues(namespace, name, pod.container_statuses[i], thresholds)])

check_pod_health(namespace, result, thresholds) ==
    IF result.kind = "ApiException" THEN Returned(<<ApiErrorIssue(namespace)>>)
    ELSE IF result.kind = "Exception" THEN Raised("collector")
    ELSE Returned(Flatten([i \in DOMAIN result.items |->
                     PodIssues(namespace, result.items[i], thresholds)]))

\* resource.endswith('.cpu') and resource.endswith('.memory') on the
\* resource names of the model
CpuResources == {"requests.cpu", "limits.cpu"}
MemoryResources == {"requests.memory", "limits.memory"}

\* used.get(resource, '0') on a sequence of <<key, value>> pairs
Lookup(pairs, key, default) ==
    IF \E i \in DOMAIN pairs : pairs[i][1] = key
    THEN pairs[CHOOSE i \in DOMAIN pairs : pairs[i][1] = key][2]
    ELSE default

\* the conversion of one quota value to a comparable value
ParseQuantity(resource, str) ==
    IF resource \in CpuResources THEN _parse_cpu(str)
    ELSE IF resource \in MemoryResources THEN _parse_memory(str)
    ELSE PyInt(str)

\* usage_percent = (used_val / hard_val) * 100 if hard_val > 0 else 0
usage_percent(used_val, hard_val) ==
    IF hard_val.m # <<>>
    THEN FloatMul(FloatDiv(used_val, hard_val), Float(BigOf(100), 0))
    ELSE Float(<<>>, 0)

\* usage_percent > pct
UsageAbove(used_val, hard_val, pct) ==
    FloatAbove(usage_percent(used_val, hard_val), pct)

\* QuotaBand with the percentage computed without the test of hard_val: a
\* hard limit of zero raises ZeroDivisionError
QuotaBandUnguarded(namespace, quota, resource, hard_val, used_val) ==
    IF ~hard_val.ok \/ ~used_val.ok THEN Raised("parse")
    ELSE IF hard_val.m = <<>> THEN Raised("ZeroDivisionError")
    ELSE IF UsageAbove(used_val, hard_val, 90)
    THEN Returned(<< Issue("resource_quota_high",
                           IF UsageAbove(used_val, hard_val, 95)
                           THEN "critical" ELSE "warning",
                           <<namespace, quota.name, resource>>) >>)
    ELSE Returned(<<>>)

\* the comparison of one resource with the two bands, after the conversion
\* of its hard and used value
QuotaBand(namespace, quota, resource, hard_val, used_val) ==
    IF ~hard_val.ok \/ ~used_val.ok THEN Raised("parse")
    ELSE IF UsageAbove(used_val, hard_val, 90)
    THEN Returned(<< Issue("resource_quota_high",
                           IF UsageAbove(used_val, hard_val, 95)
                           THEN "critical" ELSE "warning",
                           <<namespace, quota.name, resource>>) >>)
    ELSE Returned(<<>>)

\* body of the inner loop of check_resource_usage for one resource of a quota
ResourceIssues(namespace, quota, resource, hard_limit) ==
    QuotaBand(namespace, quota, resource,
              ParseQuantity(resource, hard_limit),
              ParseQuantity(resource, Lookup(quota.used, resource, <<"0">>)))

\* the results of the inner loop over all resources of all quotas, in order
QuotaResults(namespace, quotas) ==
    Flatten([q \in DOMAIN quotas |->
        IF quotas[q].hard # <<>> /\ quotas[q].used # <<>>
        THEN [r \in DOMAIN quotas[q].hard |->
                ResourceIssues(namespace, quotas[q],
                               quotas[q].hard[r][1], quotas[q].hard[r][2])]
        ELSE <<>>])

\* the issues of the resources, unless the conversion of one of them raised
Collected(rs) ==
    IF \E i \in DOMAIN rs : rs[i].raised THEN Raised("parse")
    ELSE Returned(Flatten([i \in DOMAIN rs |-> rs[i].issues]))

check_resource_usage(namespace, result) ==
    IF result.kind = "ApiException" THEN Returned(<<>>)
    ELSE IF result.kind = "Exception" THEN Raised("collector")
    ELSE Collected(QuotaResults(namespace, result.items))

\* the certificate check lists the secrets and reports nothing
check_certificate_expiry(namespace, result) ==
    IF result.kind = "Exception" THEN Raised("collector") ELSE Returned(<<>>)

\* body of the loop of check_external_services for one service and the
\* outcome of its probe: a status code, or a RequestException
ServiceIssues(service, probe) ==
    IF probe.kind = "RequestException"
    THEN << Issue("external_service_unreachable", "critical", <<service.name>>) >>
    ELSE IF probe.status # service.expected_status
    THEN << Issue("external_service_unhealthy", "critical", <<service.name>>) >>
    ELSE <<>>

\* check_external_services with the try around the loop: the first
\* RequestException ends the probes
check_external_servicesUntilFailure(external_services, probes) ==
    LET failed == {i \in DOMAIN external_services : probes[i].kind = "RequestException"}
        last == IF failed = {} THEN Len(external_services)
                ELSE CHOOSE i \in failed : \A j \in failed : i <= j
    IN  Flatten([i \in 1..last |-> ServiceIssues(external_services[i], probes[i])])

check_external_services(external_services, probes) ==
    Flatten([i \in DOMAIN external_services |->
               ServiceIssues(external_services[i], probes[i])])

\* Extended with the pod check extending all_issues before the deployment
\* check
ExtendedPodsFirst(d, p, q, c) ==
    IF d.raised THEN d
    ELSE IF p.raised THEN p
    ELSE IF q.raised THEN q
    ELSE IF c.raised THEN c
    ELSE Returned(p.issues \o d.issues \o q.issues \o c.issues)

\* all_issues.extend of the four checks in order: the first exception leaves
\* the loop, otherwise the issues are appended in order
Extended(d, p, q, c) ==
    IF d.raised THEN d
    ELSE IF p.raised THEN p
    ELSE IF q.raised THEN q
    ELSE IF c.raised THEN c
    ELSE Returned(d.issues \o p.issues \o q.issues \o c.issues)

\* one iteration of the loop of run_health_checks: the four checks of a
\* namespace in order; an exception of one of them leaves the loop
CheckNamespaceResult(namespace, results, thresholds) ==
    Extended(check_deployment_health(namespace, results.deployments, thresholds),
             check_pod_health(namespace, results.pods, thresholds),
             check_resource_usage(namespace, results.quotas),
             check_certificate_expiry(namespace, results.secrets))

\* BySeverity with the latest issue first
BySeverityLatestFirst(all_issues, severity) ==
    LET Has(i) == i.severity = severity
        kept == SelectSeq(all_issues, Has)
    IN  [j \in 1..Len(kept) |-> kept[Len(kept) + 1 - j]]

\* the grouping at the end of run_health_checks
BySeverity(all_issues, severity) ==
    LET Has(i) == i.severity = severity IN SelectSeq(all_issues, Has)

HealthReport(all_issues) ==
    [total_issues |-> Len(all_issues),
     issues_by_severity |->
        [critical |-> BySeverity(all_issues, "critical"),
         warning  |-> BySeverity(all_issues, "warning"),
         info     |-> BySeverity(all_issues, "info")],
     all_issues |-> all_issues]

\* _format_alert_message with the note from ten issues on
_format_alert_messageNoteAtTen(issues) ==
    [entries |-> Prefix(issues, 10),
     more |-> IF Len(issues) >= 10 THEN Len(issues) - 9 ELSE 0]

\* _format_alert_message: the issues that the message renders, and the
\* count of the "... and N more issues" line (0: no such line)
_format_alert_message(issues) ==
    [entries |-> Prefix(issues, 10),
     more |-> IF Len(issues) > 10 THEN Len(issues) - 10 ELSE 0]

\* ------------------------------------------------------------------------
\* The troubleshooting tool (troubleshooting/troubleshoot.py): its quota and
\* dependency checks. Its _parse_cpu and _parse_memory are those of the
\* monitor. An issue is the name of the resource or service it is about.
\* ------------------------------------------------------------------------
NoFindings == [issues |-> <<>>, recommendations |-> <<>>]

\* the comparison of one resource after the conversion of its values; a
\* ValueError of the conversion is passed over
ConstraintBand(resource, hard_val, used_val) ==
    IF ~hard_val.ok \/ ~used_val.ok THEN NoFindings
    ELSE IF UsageAbove(used_val, hard_val, 90)
    THEN [issues |-> <<resource>>, recommendations |-> <<>>]
    ELSE IF UsageAbove(used_val, hard_val, 80)
    THEN [issues |-> <<>>, recommendations |-> <<resource>>]
    ELSE NoFindings

\* the findings of all resources of all quotas, in order
ConstraintResults(quotas) ==
    Flatten([q \in DOMAIN quotas |->
        IF quotas[q].hard # <<>> /\ quotas[q].used # <<>>
        THEN [r \in DOMAIN quotas[q].hard |->
                ConstraintBand(quotas[q].hard[r][1],
                    ParseQuantity(quotas[q].hard[r][1], quotas[q].hard[r][2]),
                    ParseQuantity(quotas[q].hard[r][1],
                        Lookup(quotas[q].used, quotas[q].hard[r][1], <<"0">>)))]
        ELSE <<>>])

Merged(fs) ==
    [issues |-> Flatten([i \in DOMAIN fs |-> fs[i].issues]),
     recommendations |-> Flatten([i \in DOMAIN fs |-> fs[i].recommendations])]

\* TroubleshootingTool.check_resource_constraints, the part on resource
\* quotas, for the quotas that the listing returned
check_resource_constraints(quotas) == Merged(ConstraintResults(quotas))

\* body of the loop of check_external_dependencies for one dependency and
\* the outcome of its probe
DependencyIssues(dep, probe) ==
    IF probe.kind = "RequestException" THEN <<dep.name>>
    ELSE IF probe.status # dep.expected_status THEN <<dep.name>>
    ELSE <<>>

\* TroubleshootingTool.check_external_dependencies
check_external_dependencies(dependencies, probes) ==
    [external_dependencies |->
        Flatten([i \in DOMAIN dependencies |->
                   DependencyIssues(dependencies[i], probes[i])])]

\* ------------------------------------------------------------------------
\* Inputs: configurations and collector results that the model explores
\* ------------------------------------------------------------------------
OkResult(items) == [kind |-> "ok", items |-> items]
ApiFailure == [kind |-> "ApiException", items |-> <<>>]
OtherFailure == [kind |-> "Exception", items |-> <<>>]

\* 1 of 2 replicas ready, 91 days old: a warning and an info issue
dPartialOld == [name |-> "api", replicas |-> 2, ready_replicas |-> 1, age_hours |-> 91 * 24]
\* healthy, 91 days old: an info issue only
dOld == [name |-> "api", replicas |-> 1, ready_replicas |-> 1, age_hours |-> 91 * 24]
\* a failed pod: a critical issue
pFailed == [name |-> "worker", phase |-> "Failed", age_seconds |-> 10,
            container_statuses |-> <<[name |-> "main", restart_count |-> 0]>>]
\* the number of pods of a namespace that fail together in an incident
FailedPods == 11
PodNames == <<"worker-1", "worker-2", "worker-3", "worker-4", "worker-5", "worker-6",
              "worker-7", "worker-8", "worker-9", "worker-10", "worker-11", "worker-12">>
\* the failed pods of an incident: a critical issue each
pIncident ==
    [i \in 1..FailedPods |->
        [name |-> PodNames[i], phase |-> "Failed", age_seconds |-> 10,
         container_statuses |-> <<[name |-> "main", restart_count |-> 0]>>]]
\* 10 of 10 pods used: a critical issue
qOver == [name |-> "compute", hard |-> << <<"pods", <<"1", "0">> >> >>,
          used |-> << <<"pods", <<"1", "0">> >> >>]
\* a cpu limit whose numeric prefix does not parse
qMalformed == [name |-> "compute", hard |-> << <<"limits.cpu", <<"x", "m">> >> >>,
               used |-> << <<"limits.cpu", <<"1">> >> >>]

NsResult(d, p, q, s) == [deployments |-> d, pods |-> p, quotas |-> q, secrets |-> s]

\* what the collector can return for the four listings of one namespace
NamespaceResults ==
    { NsResult(OkResult(<<>>), OkResult(<<>>), OkResult(<<>>), OkResult(<<>>)),
      NsResult(ApiFailure, OkResult(<<>>), OkResult(<<>>), OkResult(<<>>)),
      NsResult(OkResult(<<>>), ApiFailure, OkResult(<<>>), OkResult(<<>>)),
      NsResult(OkResult(<<>>), OkResult(<<>>), ApiFailure, ApiFailure),
      NsResult(ApiFailure, ApiFailure, ApiFailure, OkResult(<<>>)),
      NsResult(OkResult(<<dPartialOld>>), OkResult(<<pFailed>>), OkResult(<<qOver>>), OkResult(<<>>)),
      NsResult(OkResult(<<dOld>>), OkResult(<<>>), OkResult(<<>>), OkResult(<<>>)),
      NsResult(OkResult(<<dPartialOld>>), OkResult(<<pFailed>>), OkResult(<<qMalformed>>), OkResult(<<>>)),
      NsResult(OkResult(<<dOld>>), OkResult(pIncident), OkResult(<<>>), OkResult(<<>>)),
      NsResult(OtherFailure, OkResult(<<>>), OkResult(<<>>), OkResult(<<>>)),
      NsResult(OkResult(<<>>), OkResult(<<>>), OkResult(<<>>), OtherFailure) }

\* outcomes of the probe of an external service
ProbeResults == { [kind |-> "ok", status |-> 200], [kind |-> "ok", status |-> 503],
                  [kind |-> "RequestException", status |-> 0] }

\* the namespace lists of the command line
NamespaceLists == { <<"payments", "billing">>, <<"billing">> }

\* config['alerts'][channel]: the gates and, for email, the recipients when
\* present; a key that is absent reads as its default
EmailConfigs == { ("critical" :> FALSE),
                  ("critical" :> TRUE),
                  ("critical" :> TRUE) @@ ("recipients" :> TRUE) }
SmtpConfigs == { ("enabled" :> TRUE) }
SlackConfigs == { ("enabled" :> TRUE) @@ ("critical" :> c) @@ ("warning" :> w) :
                     c \in BOOLEAN, w \in BOOLEAN }
                 \cup { ("critical" :> TRUE) @@ ("warning" :> TRUE) }
WebhookConfigs == { ("enabled" :> TRUE) @@ ("critical" :> c) : c \in BOOLEAN }
\* email and webhook configured to fire on warning
EmailOnWarning == ("critical" :> FALSE) @@ ("warning" :> TRUE) @@ ("recipients" :> TRUE)
WebhookOnWarning == ("enabled" :> TRUE) @@ ("critical" :> TRUE) @@ ("warning" :> TRUE)
\* the top-level keys of config['alerts'] other than the channels
SwitchConfigs == { <<>>, ("send_warnings" :> TRUE), ("send_warnings" :> FALSE) }

AlertConfigs ==
    { [email |-> e, smtp |-> m, slack |-> k, webhook |-> w, switches |-> g] :
        e \in EmailConfigs, m \in SmtpConfigs, k \in SlackConfigs,
        w \in WebhookConfigs, g \in SwitchConfigs }
    \cup
    { [email |-> EmailOnWarning, smtp |-> m, slack |-> k, webhook |-> WebhookOnWarning,
       switches |-> g] :
        m \in SmtpConfigs, k \in SlackConfigs, g \in SwitchConfigs }

ThresholdConfigs == { <<>> }

Configs ==
    { [thresholds |-> t, alerts |-> a,
       external_services |-> <<[name |-> "registry", expected_status |-> 200]>>] :
        t \in ThresholdConfigs, a \in AlertConfigs }

\* ------------------------------------------------------------------------
\* State
\* ------------------------------------------------------------------------
VARIABLES
    mode,         \* "once" (--once) or "continuous"
    output,       \* TRUE iff --output was given
    namespaces,   \* args.namespaces
    config,       \* self.config, loaded by the constructor
    pc,           \* position of main
    cycle,        \* number of the current pass of run_health_checks
    nsIdx,        \* index of the next namespace of the loop of run_health_checks
    all_issues,   \* local all_issues of run_health_checks
    report,       \* health_report of main
    snapshot,     \* what the collector returned in the current pass
    probes,       \* what the probes of the current pass returned
    attempts,     \* calls of the send functions made by the current send_alerts
    failure,      \* kind of the exception that ended the current cycle, or "none"
    slept,        \* ticks of the current sleep that have elapsed
    written,      \* cycle of the report last written or printed, 0 if none
    interrupted,  \* a KeyboardInterrupt was delivered
    exit_code,    \* return value of main, meaningful when pc = "done"
    subject,      \* the input of a rule that is evaluated on its own
    outcome       \* what the rule returned for the subject

vars == <<mode, output, namespaces, config, pc, cycle, nsIdx, all_issues, report,
          snapshot, probes, attempts, failure, slept, written, interrupted, exit_code,
          subject, outcome>>

NoReport == HealthReport(<<>>)

\* no rule is evaluated on its own
NoSubject == [kind |-> "none", thresholds |-> <<>>, item |-> <<>>, facts |-> <<>>]
NoOutcome == [done |-> FALSE, rule |-> "none", value |-> <<>>]

\* self.config before the constructor has loaded it: no key is present
NoConfig ==
    [thresholds |-> <<>>,
     alerts |-> [email |-> <<>>, smtp |-> <<>>, slack |-> <<>>, webhook |-> <<>>,
                 switches |-> <<>>],
     external_services |-> <<>>]

Init ==
    /\ mode \in {"once", "continuous"}
    /\ output \in BOOLEAN
    /\ namespaces \in NamespaceLists
    /\ config = NoConfig
    /\ pc = "start"
    /\ cycle = 0
    /\ nsIdx = 1
    /\ all_issues = <<>>
    /\ report = NoReport
    /\ snapshot = <<>>
    /\ probes = <<>>
    /\ attempts = <<>>
    /\ failure = "none"
    /\ slept = 0
    /\ written = 0
    /\ interrupted = FALSE
    /\ exit_code = 0
    /\ subject = NoSubject
    /\ outcome = NoOutcome

\* ------------------------------------------------------------------------
\* main: exceptions
\* ------------------------------------------------------------------------
args == <<mode, output, namespaces>>
\* main evaluates no rule on its own
unit == <<subject, outcome>>

\* Caught with the handler of the loop missing: the exception reaches the
\* outer `except Exception` in both modes
CaughtByOuterHandler(kind) ==
    /\ failure' = kind
    /\ nsIdx' = 1
    /\ all_issues' = <<>>
    /\ snapshot' = <<>>
    /\ probes' = <<>>
    /\ slept' = 0
    /\ pc' = "done"
    /\ exit_code' = 1

\* an exception of class Exception raised inside the try blocks of main:
\* single-shot mode reaches `except Exception` of the outer try (return 1),
\* continuous mode the handler inside the loop; the frame of the function
\* that raised is gone
Caught(kind) ==
    /\ failure' = kind
    /\ nsIdx' = 1
    /\ all_issues' = <<>>
    /\ snapshot' = <<>>
    /\ probes' = <<>>
    /\ slept' = 0
    /\ IF mode = "once"
       THEN pc' = "done" /\ exit_code' = 1
       ELSE pc' = "handler" /\ exit_code' = exit_code

\* the handler of the loop logs the exception and control reaches
\* time.sleep; health_report is dead until the next pass has returned
HandleFailure ==
    /\ pc = "handler"
    /\ pc' = "sleep"
    /\ slept' = 0
    /\ report' = NoReport
    /\ attempts' = <<>>
    /\ UNCHANGED <<args, unit, config, cycle, nsIdx, all_issues, snapshot, probes, failure,
                   written, interrupted, exit_code>>

\* ------------------------------------------------------------------------
\* main: startup
\* ------------------------------------------------------------------------
\* CICDMonitor(args.config) succeeds; run_health_checks starts
Startup ==
    /\ pc = "start"
    /\ config' \in Configs
    /\ pc' = "check_ns"
    /\ cycle' = 1
    /\ UNCHANGED <<args, unit, nsIdx, all_issues, report, snapshot, probes, attempts,
                   failure, slept, written, interrupted, exit_code>>

\* StartupFails with the failure logged and main returning 0
StartupFailsReturningZero ==
    /\ pc = "start"
    /\ pc' = "done"
    /\ exit_code' = 0
    /\ failure' = "startup"
    /\ UNCHANGED <<args, unit, config, cycle, nsIdx, all_issues, report, snapshot, probes,
                   attempts, slept, written, interrupted>>

\* _load_config or the client initialisation raises: `except Exception`
\* of main logs and returns 1
StartupFails ==
    /\ pc = "start"
    /\ pc' = "done"
    /\ exit_code' = 1
    /\ failure' = "startup"
    /\ UNCHANGED <<args, unit, config, cycle, nsIdx, all_issues, report, snapshot, probes,
                   attempts, slept, written, interrupted>>

\* ------------------------------------------------------------------------
\* run_health_checks
\* ------------------------------------------------------------------------
\* one iteration of `for namespace in namespaces`
CheckNamespace ==
    /\ pc = "check_ns"
    /\ nsIdx <= Len(namespaces)
    /\ \E r \in NamespaceResults :
         LET res == CheckNamespaceResult(namespaces[nsIdx], r, config.thresholds)
         IN IF res.raised
            THEN /\ Caught(res.kind)
                 /\ UNCHANGED <<args, unit, config, cycle, report, attempts, written, interrupted>>
            ELSE /\ all_issues' = all_issues \o res.issues
                 /\ snapshot' = Append(snapshot, r)
                 /\ nsIdx' = nsIdx + 1
                 /\ pc' = IF nsIdx + 1 > Len(namespaces) THEN "check_ext" ELSE "check_ns"
                 /\ UNCHANGED <<args, unit, config, cycle, report, probes, attempts, failure,
                                slept, written, interrupted, exit_code>>

\* the rest of run_health_checks: the external services, the grouping and
\* the return to main
CheckExternal ==
    /\ pc = "check_ext"
    /\ \E ps \in [DOMAIN config.external_services -> ProbeResults] :
         /\ probes' = ps
         /\ all_issues' = all_issues \o check_external_services(config.external_services, ps)
    /\ report' = HealthReport(all_issues')
    /\ pc' = IF mode = "once" THEN "write" ELSE "send_enter"
    /\ UNCHANGED <<args, unit, config, cycle, nsIdx, snapshot, attempts, failure, slept,
                   written, interrupted, exit_code>>

\* ------------------------------------------------------------------------
\* AlertManager and send_alerts
\* ------------------------------------------------------------------------
\* what a send function of AlertManager can do with the configuration of
\* its channel: return False at once when the channel is not enabled, else
\* send, or fail and return False from its `except Exception`
SendOutcomes(channel_config) ==
    IF Get(channel_config, "enabled", FALSE) THEN {"sent", "failed"} ELSE {"disabled"}

\* Invoke with a send that is repeated until it does not fail
InvokeRetrying(channel, severity, channel_config, issues, next) ==
    /\ \E o \in SendOutcomes(channel_config) :
         /\ attempts' = Append(attempts, [channel |-> channel, severity |-> severity,
                                          outcome |-> o, issues |-> issues])
         /\ pc' = IF o = "failed" THEN pc ELSE next
    /\ UNCHANGED <<args, unit, config, cycle, nsIdx, all_issues, report, snapshot, probes,
                   failure, slept, written, interrupted, exit_code>>

\* one call of a send function, recorded with what it was given
Invoke(channel, severity, channel_config, issues, next) ==
    /\ \E o \in SendOutcomes(channel_config) :
         attempts' = Append(attempts, [channel |-> channel, severity |-> severity,
                                       outcome |-> o, issues |-> issues])
    /\ pc' = next
    /\ UNCHANGED <<args, unit, config, cycle, nsIdx, all_issues, report, snapshot, probes,
                   failure, slept, written, interrupted, exit_code>>

\* a gate of send_alerts that is off: nothing is called
Skip(next) ==
    /\ pc' = next
    /\ UNCHANGED <<args, unit, config, cycle, nsIdx, all_issues, report, snapshot, probes,
                   attempts, failure, slept, written, interrupted, exit_code>>

\* critical_issues read from the ungrouped list
UngroupedIssues == report.all_issues

critical_issues == report.issues_by_severity.critical
warning_issues == report.issues_by_severity.warning

\* position of main after send_alerts has returned
AfterSendAlerts == IF mode = "once" THEN "done" ELSE "write"

\* send_alerts is entered: the buckets are read and `if critical_issues`
\* is tested; what the collector returned is not kept beyond the report
SendAlertsEnter ==
    /\ pc = "send_enter"
    /\ attempts' = <<>>
    /\ snapshot' = <<>>
    /\ probes' = <<>>
    /\ pc' = IF critical_issues # <<>> THEN "crit_email" ELSE "warn"
    /\ UNCHANGED <<args, unit, config, cycle, nsIdx, all_issues, report, failure, slept,
                   written, interrupted, exit_code>>

\* the email block of the critical branch; config['alerts']['email']
\* ['recipients'] raises KeyError when the key is absent
CriticalEmail ==
    /\ pc = "crit_email"
    /\ IF Get(config.alerts.email, "critical", FALSE)
       THEN IF "recipients" \in DOMAIN config.alerts.email
            THEN Invoke("email", "critical", config.alerts.smtp,
                        _format_alert_message(critical_issues).entries, "crit_slack")
            ELSE /\ Caught("dispatch")
                 /\ UNCHANGED <<args, unit, config, cycle, report, attempts, written, interrupted>>
       ELSE Skip("crit_slack")

\* the Slack block of the critical branch
CriticalSlack ==
    /\ pc = "crit_slack"
    /\ IF Get(config.alerts.slack, "critical", FALSE)
       THEN Invoke("slack", "critical", config.alerts.slack,
                   _format_alert_message(critical_issues).entries, "crit_webhook")
       ELSE Skip("crit_webhook")

\* the webhook block of the critical branch; the payload is the bucket
CriticalWebhook ==
    /\ pc = "crit_webhook"
    /\ IF Get(config.alerts.webhook, "critical", FALSE)
       THEN Invoke("webhook", "critical", config.alerts.webhook, critical_issues, "warn")
       ELSE Skip("warn")

\* Warning without the test of the send_warnings switch
WarningIgnoringSwitch ==
    /\ pc = "warn"
    /\ IF /\ warning_issues # <<>>
          /\ Get(config.alerts.slack, "warning", FALSE)
       THEN Invoke("slack", "warning", config.alerts.slack,
                   _format_alert_message(warning_issues).entries, AfterSendAlerts)
       ELSE Skip(AfterSendAlerts)

\* the warning branch, and the return of send_alerts
Warning ==
    /\ pc = "warn"
    /\ IF /\ warning_issues # <<>>
          /\ Get(config.alerts.switches, "send_warnings", TRUE)
          /\ Get(config.alerts.slack, "warning", FALSE)
       THEN Invoke("slack", "warning", config.alerts.slack,
                   _format_alert_message(warning_issues).entries, AfterSendAlerts)
       ELSE Skip(AfterSendAlerts)

\* ------------------------------------------------------------------------
\* main: the report, the sleep and the interrupt
\* ------------------------------------------------------------------------
\* WriteOnce with the report left for after send_alerts
WriteOnceDeferred ==
    /\ pc = "write"
    /\ mode = "once"
    /\ pc' = "send_enter"
    /\ UNCHANGED <<args, unit, config, cycle, nsIdx, all_issues, report, snapshot, probes,
                   attempts, failure, slept, written, interrupted, exit_code>>

\* single-shot mode writes or prints the report before send_alerts
WriteOnce ==
    /\ pc = "write"
    /\ mode = "once"
    /\ written' = cycle
    /\ pc' = "send_enter"
    /\ UNCHANGED <<args, unit, config, cycle, nsIdx, all_issues, report, snapshot, probes,
                   attempts, failure, slept, interrupted, exit_code>>

\* continuous mode writes the report after send_alerts when --output is
\* given, logs the count of issues and goes on to time.sleep; health_report
\* is dead until the next pass has returned
WriteContinuous ==
    /\ pc = "write"
    /\ mode = "continuous"
    /\ written' = IF output THEN cycle ELSE written
    /\ pc' = "sleep"
    /\ slept' = 0
    /\ report' = NoReport
    /\ attempts' = <<>>
    /\ UNCHANGED <<args, unit, config, cycle, nsIdx, all_issues, snapshot, probes,
                   failure, interrupted, exit_code>>

\* open or json.dump raises: the file is untouched when open failed and
\* empty when open had truncated it
WriteFails ==
    /\ pc = "write"
    /\ output
    /\ written' \in {written, 0}
    /\ Caught("write")
    /\ UNCHANGED <<args, unit, config, cycle, report, attempts, interrupted>>

\* one tick of time.sleep(args.interval)
Tick ==
    /\ pc = "sleep"
    /\ slept < Interval
    /\ slept' = slept + 1
    /\ UNCHANGED <<args, unit, config, pc, cycle, nsIdx, all_issues, report, snapshot, probes,
                   attempts, failure, written, interrupted, exit_code>>

\* NextCycle with a sleep that may return before the interval has elapsed
NextCycleBeforeInterval ==
    /\ pc = "sleep"
    /\ cycle < MaxCycles
    /\ cycle' = cycle + 1
    /\ pc' = "check_ns"
    /\ nsIdx' = 1
    /\ all_issues' = <<>>
    /\ report' = NoReport
    /\ attempts' = <<>>
    /\ failure' = "none"
    /\ slept' = 0
    /\ UNCHANGED <<args, unit, config, snapshot, probes, written, interrupted, exit_code>>

\* time.sleep returns and `while True` starts the next pass
NextCycle ==
    /\ pc = "sleep"
    /\ slept = Interval
    /\ cycle < MaxCycles
    /\ cycle' = cycle + 1
    /\ pc' = "check_ns"
    /\ nsIdx' = 1
    /\ all_issues' = <<>>
    /\ report' = NoReport
    /\ attempts' = <<>>
    /\ failure' = "none"
    /\ slept' = 0
    /\ UNCHANGED <<args, unit, config, snapshot, probes, written, interrupted, exit_code>>

\* KeyboardInterrupt is not an Exception: it passes the handler of the
\* loop and reaches `except KeyboardInterrupt`, and main returns 0
Interrupt ==
    /\ pc # "done"
    /\ interrupted' = TRUE
    /\ pc' = "done"
    /\ exit_code' = 0
    /\ nsIdx' = 1
    /\ all_issues' = <<>>
    /\ snapshot' = <<>>
    /\ probes' = <<>>
    /\ slept' = 0
    /\ UNCHANGED <<args, unit, config, cycle, report, attempts, failure, written>>

Next ==
    \/ Startup
    \/ StartupFails
    \/ CheckNamespace
    \/ CheckExternal
    \/ SendAlertsEnter
    \/ CriticalEmail
    \/ CriticalSlack
    \/ CriticalWebhook
    \/ Warning
    \/ WriteOnce
    \/ WriteContinuous
    \/ WriteFails
    \/ HandleFailure
    \/ Tick
    \/ NextCycle
    \/ Interrupt

Spec == Init /\ [][Next]_vars

\* the scheduling of the single thread of main: the handler of the loop
\* returns, time.sleep advances and returns
FairSpec == Spec /\ WF_vars(HandleFailure) /\ WF_vars(Tick) /\ WF_vars(NextCycle)

\* ------------------------------------------------------------------------
\* The rules on their own: one rule is called on one input, as
\* run_health_checks calls it, and its return value is kept.
\* ------------------------------------------------------------------------
\* largest length of the issue list given to _format_alert_message
MaxIssues == 15
\* largest replica count of a deployment
MaxReplicas == 3

\* str(n) of a natural, as a character sequence
RECURSIVE Str(_)
Str(n) ==
    IF n < 10 THEN <<Digits[n + 1]>>
    ELSE Str(n \div 10) \o <<Digits[(n % 10) + 1]>>

\* str(n) of an integer of Python of any size: nine digits at a time
RECURSIVE BigStr(_)
BigStr(a) ==
    IF Len(a) <= 29 THEN Str(BigToInt(a))
    ELSE LET qr == BigDivMod(a, BigOf(1000000000))
             low == Str(BigToInt(qr[2]))
         IN  BigStr(qr[1]) \o [i \in 1..(9 - Len(low)) |-> "0"] \o low

RuleNamespace == "payments"

\* self.config['thresholds']: absent keys, or every key set away from its
\* default
ConfiguredThresholds ==
    [max_deployment_age_days |-> 30, max_container_restarts |-> 2,
     pod_pending_grace_seconds |-> 60, quota_warning_pct |-> 50,
     quota_critical_pct |-> 60]
RuleThresholds == { <<>>, ConfiguredThresholds }

\* how a quota writes a quantity of a resource
QuotaFormats ==
    { [resource |-> "pods", suffix |-> <<>>],
      [resource |-> "requests.cpu", suffix |-> <<"m">>],
      [resource |-> "limits.cpu", suffix |-> <<>>],
      [resource |-> "requests.memory", suffix |-> <<"M", "i">>],
      [resource |-> "limits.memory", suffix |-> <<>>] }
\* <<hard, used>> of the resource under test, around the two bands
QuotaCases ==
    ({20} \X {0, 10, 17, 18, 19, 20, 21}) \cup ({100} \X (89..97))
    \cup ({150} \X {135, 136, 142, 143}) \cup ({0} \X {0, 5})
\* a quota with the resource under test first and a second resource that is
\* fully used
QuotaSubjects ==
    { [kind |-> "quota", thresholds |-> t,
       facts |-> [resource |-> f.resource, hard |-> c[1], used |-> c[2]],
       item |-> [name |-> "compute",
                 hard |-> << <<f.resource, Str(c[1]) \o f.suffix>>,
                             <<"services", Str(10)>> >>,
                 used |-> << <<f.resource, Str(c[2]) \o f.suffix>>,
                             <<"services", Str(10)>> >>]] :
      t \in RuleThresholds, f \in QuotaFormats, c \in QuotaCases }

\* ages of a deployment as <<days, hours>> around the limits 30 and 90
DeploymentAges ==
    { <<0, 1>>, <<30, 0>>, <<30, 12>>, <<31, 0>>, <<90, 0>>, <<90, 12>>, <<91, 0>> }
\* replica counts, None being an absent field
ReplicaCounts ==
    { [replicas |-> d, ready_replicas |-> r] : d, r \in 0..MaxReplicas }
    \cup { [replicas |-> d] : d \in 0..MaxReplicas }
    \cup { [ready_replicas |-> r] : r \in 0..MaxReplicas }
DeploymentSubjects ==
    { [kind |-> "deployment", thresholds |-> t,
       facts |-> [replicas |-> Get(c, "replicas", 0),
                  ready_replicas |-> Get(c, "ready_replicas", 0),
                  days |-> a[1], hours |-> a[2]],
       item |-> c @@ [name |-> "api", age_hours |-> a[1] * 24 + a[2]]] :
      t \in RuleThresholds, c \in ReplicaCounts, a \in DeploymentAges }

PodPhases == {"Pending", "Running", "Succeeded", "Failed", "Unknown"}
PodAges == {0, 60, 61, 299, 300, 301, 600}
RestartCounts == {2, 3, 5, 6}
ContainerLists ==
    { <<>> }
    \cup { << [name |-> "app", restart_count |-> n] >> : n \in RestartCounts }
    \cup { << [name |-> "app", restart_count |-> n],
              [name |-> "sidecar", restart_count |-> k] >> : n, k \in RestartCounts }
PodSubjects ==
    { [kind |-> "pod", thresholds |-> t, facts |-> <<>>,
       item |-> [name |-> "worker", phase |-> ph, age_seconds |-> a,
                 container_statuses |-> cs]] :
      t \in RuleThresholds, ph \in PodPhases, a \in PodAges, cs \in ContainerLists }

\* external services with the outcome of the probe of each
ServiceNames == <<"registry", "vault">>
ProbedServices ==
    { [expected_status |-> e, probe |-> pr] : e \in {200, 204}, pr \in ProbeResults }
ServiceSubjects ==
    { [kind |-> "services", thresholds |-> <<>>, facts |-> <<>>,
       item |-> [i \in 1..Len(ps) |->
                   [name |-> ServiceNames[i],
                    expected_status |-> ps[i].expected_status,
                    probe |-> ps[i].probe]]] :
      ps \in { <<>> } \cup { <<a>> : a \in ProbedServices }
            \cup { <<a, b>> : a, b \in ProbedServices } }

\* issue lists of every length up to MaxIssues, the issues all different
Severities == <<"critical", "warning", "info">>
IssueList(n, first) ==
    [i \in 1..n |-> Issue("pod_failed", Severities[((first + i) % 3) + 1],
                          <<RuleNamespace, Str(i)>>)]
FormatSubjects ==
    { [kind |-> "format", thresholds |-> <<>>, facts |-> <<>>,
       item |-> IssueList(n, first)] : n \in 0..MaxIssues, first \in 0..2 }

\* largest small count of a unit in a memory string
MaxCount == 3
\* 2^53 + 1, the first integer that is not a float
LargeCount == BigAdd(BigShl(<<1>>, 53), <<1>>)
MemoryCounts == {BigOf(n) : n \in 0..MaxCount} \cup {BigOf(1000), LargeCount}
\* the suffix of the i-th unit, none for bytes
Suffix(i) == IF i = 0 THEN <<>> ELSE MemoryUnits[i]
\* the quantity n * 1024^k written in the k-th unit and in every smaller
\* one: n with the k-th suffix, 1024 * n with the suffix below, down to the
\* decimal count of bytes
Spellings(n, k) ==
    [j \in 1..(k + 1) |-> BigStr(BigShl(n, 10 * (j - 1))) \o Suffix(k + 1 - j)]
\* memory strings: the spellings of a quantity in Gi and in Ti, and the
\* empty string
MemorySubjects ==
    { [kind |-> "memory", thresholds |-> <<>>,
       facts |-> [bytes |-> BigShl(n, 10 * k)],
       item |-> Spellings(n, k)] : n \in MemoryCounts, k \in {3, 4} }
    \cup { [kind |-> "memory", thresholds |-> <<>>, facts |-> [bytes |-> <<>>],
            item |-> << <<>> >>] }

\* main does not run: its variables stay at their initial values
main == <<args, config, pc, cycle, nsIdx, all_issues, report, snapshot, probes,
          attempts, failure, slept, written, interrupted, exit_code>>

InitRules ==
    /\ mode = "once"
    /\ output = FALSE
    /\ namespaces = <<RuleNamespace>>
    /\ config = NoConfig
    /\ pc = "start"
    /\ cycle = 0
    /\ nsIdx = 1
    /\ all_issues = <<>>
    /\ report = NoReport
    /\ snapshot = <<>>
    /\ probes = <<>>
    /\ attempts = <<>>
    /\ failure = "none"
    /\ slept = 0
    /\ written = 0
    /\ interrupted = FALSE
    /\ exit_code = 0
    /\ \/ subject \in QuotaSubjects
       \/ subject \in DeploymentSubjects
       \/ subject \in PodSubjects
       \/ subject \in ServiceSubjects
       \/ subject \in FormatSubjects
       \/ subject \in MemorySubjects
    /\ outcome = NoOutcome

\* the call of one rule on a subject of the kind it takes
Evaluate(kind, rule, value) ==
    /\ subject.kind = kind
    /\ ~outcome.done
    /\ outcome' = [done |-> TRUE, rule |-> rule, value |-> value]
    /\ UNCHANGED <<main, subject>>

\* self.check_resource_usage(namespace)
EvalQuota ==
    Evaluate("quota", "quota",
             check_resource_usage(RuleNamespace, OkResult(<<subject.item>>)))
\* self.check_deployment_health(namespace)
EvalDeployment ==
    Evaluate("deployment", "deployment",
             check_deployment_health(RuleNamespace, OkResult(<<subject.item>>),
                                     subject.thresholds))
\* self.check_pod_health(namespace)
EvalPod ==
    Evaluate("pod", "pod",
             check_pod_health(RuleNamespace, OkResult(<<subject.item>>),
                              subject.thresholds))
\* self.check_external_services()
EvalServices ==
    Evaluate("services", "services",
             Returned(check_external_services(
                 subject.item, [i \in DOMAIN subject.item |-> subject.item[i].probe])))
\* self._format_alert_message(issues)
EvalFormat ==
    Evaluate("format", "format", _format_alert_message(subject.item))
\* TroubleshootingTool.check_resource_constraints(namespace)
EvalConstraints ==
    Evaluate("quota", "constraints", check_resource_constraints(<<subject.item>>))
\* TroubleshootingTool.check_external_dependencies(dependencies)
EvalDependencies ==
    Evaluate("services", "dependencies",
             check_external_dependencies(
                 subject.item, [i \in DOMAIN subject.item |-> subject.item[i].probe]))

\* CICDMonitor._parse_memory(memory_str), for each spelling
EvalParseMemory ==
    Evaluate("memory", "parse_memory",
             [i \in DOMAIN subject.item |-> _parse_memory(subject.item[i])])
\* CICDUtils._parse_memory(memory_str), for each spelling
EvalUtilsParseMemory ==
    Evaluate("memory", "utils_parse_memory",
             [i \in DOMAIN subject.item |-> CICDUtils_parse_memory(subject.item[i])])

RuleNext ==
    \/ EvalQuota
    \/ EvalDeployment
    \/ EvalPod
    \/ EvalServices
    \/ EvalFormat
    \/ EvalConstraints
    \/ EvalDependencies
    \/ EvalParseMemory
    \/ EvalUtilsParseMemory

RuleSpec == InitRules /\ [][RuleNext]_vars

\* ------------------------------------------------------------------------
\* Vocabulary of the properties
\* ------------------------------------------------------------------------
Channels == {"email", "slack", "webhook"}

\* the configuration that holds the enabled flag of a channel
TransportConfig(ch) == IF ch = "email" THEN config.alerts.smtp ELSE config.alerts[ch]

\* fires_on_<severity> of a channel
FiresOn(ch, severity) == Get(config.alerts[ch], severity, FALSE)

\* the send function of ch was called for the bucket of that severity
Attempted(ch, severity) ==
    \E i \in DOMAIN attempts : attempts[i].channel = ch /\ attempts[i].severity = severity

AttemptCount(ch, severity) ==
    Cardinality({i \in DOMAIN attempts :
                    attempts[i].channel = ch /\ attempts[i].severity = severity})

Bucket(severity) == BySeverity(report.all_issues, severity)

\* send_alerts has returned normally
SendAlertsReturned ==
    \/ mode = "continuous" /\ pc = "write"
    \/ mode = "once" /\ pc = "done" /\ ~interrupted /\ failure = "none"

\* send_alerts was left by an exception
SendAlertsRaised == failure = "dispatch" /\ pc \in {"handler", "done"} /\ ~interrupted

SendAlertsOver == SendAlertsReturned \/ SendAlertsRaised

\* run_health_checks has just returned its report
ReportReturned ==
    /\ pc \in {"write", "send_enter"}
    /\ Len(snapshot) = Len(namespaces)

ListedClasses == {"deployments", "pods", "quotas"}

\* the listings of a namespace that failed with ApiException
FailedClasses(r) == {c \in ListedClasses : r[c].kind = "ApiException"}

\* the issues that the rules derive from the listings of a namespace that
\* succeeded
RuleIssues(namespace, r) ==
    (IF r.deployments.kind = "ok"
     THEN check_deployment_health(namespace, r.deployments, config.thresholds).issues
     ELSE <<>>)
    \o (IF r.pods.kind = "ok"
        THEN check_pod_health(namespace, r.pods, config.thresholds).issues ELSE <<>>)
    \o (IF r.quotas.kind = "ok"
        THEN check_resource_usage(namespace, r.quotas).issues ELSE <<>>)

\* sub occurs in s as a block
Contains(s, sub) ==
    \E k \in 0..(Len(s) - Len(sub)) : SubSeq(s, k + 1, k + Len(sub)) = sub

Occurrences(s, x) == Cardinality({k \in DOMAIN s : s[k] = x})

CycleFailures == {"collector", "parse", "dispatch", "write"}

\* ------------------------------------------------------------------------
\* Properties
\* ------------------------------------------------------------------------
\* C1: in continuous mode an exception raised inside a cycle (collector,
\* quantity parse, dispatch, report write) reaches the handler of the loop,
\* which goes to a sleep that starts from zero; the next cycle starts only
\* from a sleep whose full interval has elapsed; once the monitor is
\* constructed the loop is left only by an interrupt; and a cycle that
\* failed is followed by the next cycle unless an interrupt arrives.
C1_LoopSurvivesFailures ==
    [][ mode = "continuous" =>
          /\ (failure' # failure /\ failure' \in CycleFailures
                => pc' = "handler" /\ ~interrupted')
          /\ (pc = "handler" /\ pc' # "handler"
                => (pc' = "sleep" /\ slept' = 0) \/ interrupted')
          /\ (cycle' # cycle /\ cycle >= 1
                => pc = "sleep" /\ slept = Interval /\ pc' = "check_ns"
                   /\ cycle' = cycle + 1)
          /\ (pc' = "done" /\ pc \notin {"done", "start"} => interrupted') ]_vars
    /\ \A k \in 1..(MaxCycles - 1) :
          (mode = "continuous" /\ cycle = k /\ failure \in CycleFailures)
              ~> (cycle = k + 1 \/ interrupted)

\* C1, witness: a cycle of the loop ended by a dispatch exception and the
\* full interval has been slept
C1_Witness ==
    /\ mode = "continuous"
    /\ pc = "sleep"
    /\ slept = Interval
    /\ failure = "dispatch"

\* the (channel, severity) pairs that send_alerts dispatches to
DispatchPairs == { <<"email", "critical">>, <<"slack", "critical">>,
                   <<"webhook", "critical">>, <<"slack", "warning">> }

\* the pair is gated on for the report: its bucket is non-empty, its
\* channel fires on the severity, and warnings are switched on
Due(ch, severity) ==
    /\ Bucket(severity) # <<>>
    /\ FiresOn(ch, severity)
    /\ severity = "warning" => Get(config.alerts.switches, "send_warnings", TRUE)

\* C2: when send_alerts is over, every channel that is gated on has been
\* attempted, whatever happened to its siblings; the channel whose own
\* dispatch step failed is the only one that may be missing.
C2_EveryGatedChannelAttempted ==
    SendAlertsOver =>
        \A p \in DispatchPairs :
            (Due(p[1], p[2]) /\ ~(SendAlertsRaised /\ p = <<"email", "critical">>))
                => Attempted(p[1], p[2])

\* C3: a report returned after an ApiException of a listing of a namespace
\* holds a critical api_error issue of that namespace and, as a block, the
\* rule-derived issues of every other namespace.
C3_ApiFailureIsolated ==
    ReportReturned =>
        \A i \in DOMAIN namespaces :
            FailedClasses(snapshot[i]) # {} =>
                /\ ApiErrorIssue(namespaces[i]) \in Range(report.all_issues)
                /\ \A j \in DOMAIN namespaces \ {i} :
                       Contains(report.all_issues, RuleIssues(namespaces[j], snapshot[j]))

\* C4: a returned report holds at least one api_error issue of a namespace
\* for each listing (deployments, pods, resource quotas) of that namespace
\* that failed.
C4_EveryFailedListingReported ==
    ReportReturned =>
        \A i \in DOMAIN namespaces :
            Occurrences(report.all_issues, ApiErrorIssue(namespaces[i]))
                >= Cardinality(FailedClasses(snapshot[i]))

\* C5: no pass of run_health_checks is ended by a quantity that does not
\* parse.
C5_ParseFailureNeverAborts == failure # "parse"

\* C6: when send_alerts is over, the channels whose send function was
\* called for the critical bucket are exactly the channels that fire on
\* critical, and none when the bucket is empty.
C6_CriticalGating ==
    SendAlertsOver =>
        {ch \in Channels : Attempted(ch, "critical")}
            = (IF Bucket("critical") # <<>>
               THEN {ch \in Channels : FiresOn(ch, "critical")} ELSE {})

\* C7: when send_alerts has returned, the warning bucket is non-empty and
\* send_warnings is true, every enabled channel that fires on warning has
\* been attempted for the warning bucket.
C7_WarningOnEveryChannel ==
    (SendAlertsReturned /\ Bucket("warning") # <<>>
        /\ Get(config.alerts.switches, "send_warnings", TRUE))
    => \A ch \in Channels :
          (Get(TransportConfig(ch), "enabled", FALSE) /\ FiresOn(ch, "warning"))
              => Attempted(ch, "warning")

\* send_warnings is set and false
WarningsOff ==
    /\ "send_warnings" \in DOMAIN config.alerts.switches
    /\ ~config.alerts.switches["send_warnings"]

\* C8: with send_warnings false no send function is called for the warning
\* bucket, and a send_alerts that returns has called the send function of
\* exactly the channels that fire on critical when the critical bucket is
\* non-empty.
C8_SwitchGatesWarningsOnly ==
    WarningsOff =>
        /\ \A ch \in Channels : ~Attempted(ch, "warning")
        /\ SendAlertsReturned =>
              {ch \in Channels : Attempted(ch, "critical")}
                  = (IF Bucket("critical") # <<>>
                     THEN {ch \in Channels : FiresOn(ch, "critical")} ELSE {})

\* C8, witness: send_alerts has returned with the switch off, a warning
\* bucket, Slack firing on warning, and a critical alert sent
C8_Witness ==
    /\ WarningsOff
    /\ SendAlertsReturned
    /\ Bucket("warning") # <<>>
    /\ FiresOn("slack", "warning")
    /\ Attempted("slack", "critical")

\* C9: every call of a send function is for the critical or the warning
\* bucket and is given issues of that severity only, and a report without
\* critical and warning issues causes no call.
C9_InfoNeverDispatched ==
    /\ \A i \in DOMAIN attempts :
          /\ attempts[i].severity \in {"critical", "warning"}
          /\ \A k \in DOMAIN attempts[i].issues :
                attempts[i].issues[k].severity = attempts[i].severity
    /\ (Bucket("critical") = <<>> /\ Bucket("warning") = <<>>) => attempts = <<>>

\* C9, witness: send_alerts has returned for a report that holds info
\* issues and critical issues, with a channel firing on critical
C9_Witness ==
    /\ SendAlertsReturned
    /\ Bucket("info") # <<>>
    /\ Attempted("slack", "critical")
    /\ Attempted("webhook", "critical")

\* C10: within one call of send_alerts the send function of a channel is
\* called at most once for each bucket.
C10_NoRetryWithinCycle ==
    \A ch \in Channels : \A severity \in {"critical", "warning"} :
        AttemptCount(ch, severity) <= 1

\* C10, witness: send_alerts has returned in the second cycle after a send
\* that failed, and a sibling was attempted once
C10_Witness ==
    /\ SendAlertsReturned
    /\ cycle = 2
    /\ \E i \in DOMAIN attempts : attempts[i].outcome = "failed"
    /\ Len(attempts) >= 2

\* ------------------------------------------------------------------------
\* Vocabulary of the properties of the rules
\* ------------------------------------------------------------------------
\* the given rule has returned or raised for the subject
Evaluated(rule) == outcome.done /\ outcome.rule = rule

\* the number of elements of a sequence that satisfy Test
Count(seq, Test(_)) == Cardinality({i \in DOMAIN seq : Test(seq[i])})

\* the issues of the given type and severity that the rule returned
IssuesOf(type, severity) ==
    Count(outcome.value.issues, LAMBDA i : i.type = type /\ i.severity = severity)

\* the issues of the given severity that the quota rule returned for the
\* resource under test
PairIssues(severity) ==
    Count(outcome.value.issues,
          LAMBDA i : /\ i.type = "resource_quota_high"
                     /\ i.severity = severity
                     /\ i.resource = <<RuleNamespace, subject.item.name,
                                       subject.facts.resource>>)

\* used/hard * 100 > pct in exact arithmetic, for the resource under test
PercentAbove(pct) == subject.facts.used * 100 > pct * subject.facts.hard

\* C11: with the default thresholds and a positive hard limit, a usage
\* percentage above 95 yields exactly one critical issue and no warning for
\* the pair, one above 90 and at most 95 exactly one warning and no critical
\* issue, and one of at most 90 no issue.
C11_QuotaBands ==
    (Evaluated("quota") /\ subject.thresholds = <<>> /\ subject.facts.hard > 0) =>
        /\ ~outcome.value.raised
        /\ PairIssues("critical") = (IF PercentAbove(95) THEN 1 ELSE 0)
        /\ PairIssues("warning") =
              (IF PercentAbove(90) /\ ~PercentAbove(95) THEN 1 ELSE 0)

\* the configured value of a threshold, or its default when the key is absent
Threshold(key, default) == Get(subject.thresholds, key, default)

\* the containers of the pod under test whose restart count is above max
RestartsAbove(max) ==
    Count(subject.item.container_statuses, LAMBDA c : c.restart_count > max)

\* C12: every rule compares against the configured threshold and falls back
\* to the default only when the key is absent: the quota bands follow
\* quota_warning_pct and quota_critical_pct, the pending rule follows
\* pod_pending_grace_seconds and the restart rule max_container_restarts.
C12_ThresholdsConfigured ==
    /\ (Evaluated("quota") /\ subject.thresholds # <<>> /\ subject.facts.hard > 0) =>
          /\ PairIssues("critical") =
                (IF PercentAbove(Threshold("quota_critical_pct", 95)) THEN 1 ELSE 0)
          /\ PairIssues("warning") =
                (IF /\ PercentAbove(Threshold("quota_warning_pct", 90))
                    /\ ~PercentAbove(Threshold("quota_critical_pct", 95))
                 THEN 1 ELSE 0)
    /\ Evaluated("pod") =>
          /\ IssuesOf("pod_pending", "warning") =
                (IF /\ subject.item.phase = "Pending"
                    /\ subject.item.age_seconds >
                           Threshold("pod_pending_grace_seconds", 300)
                 THEN 1 ELSE 0)
          /\ IssuesOf("high_restart_count", "warning") =
                RestartsAbove(Threshold("max_container_restarts", 5))

\* the value of the resource under test as the quota writes it
Written(pairs) == Lookup(pairs, subject.facts.resource, <<"0">>)

\* the second resource of the quota, fully used, was reported
RemainingReported ==
    IF outcome.rule = "quota"
    THEN \E i \in DOMAIN outcome.value.issues :
            outcome.value.issues[i] =
                Issue("resource_quota_high", "critical",
                      <<RuleNamespace, subject.item.name, "services">>)
    ELSE \E i \in DOMAIN outcome.value.issues : outcome.value.issues[i] = "services"

\* C13: a resource whose hard limit converts to zero has the usage
\* percentage 0 and yields no issue whatever is used; nothing is raised, and
\* the resource after it is still evaluated. This holds for the monitor and
\* for the quota check of the troubleshooting tool.
C13_ZeroHardLimit ==
    ((Evaluated("quota") \/ Evaluated("constraints")) /\ subject.facts.hard = 0) =>
        /\ usage_percent(
               ParseQuantity(subject.facts.resource, Written(subject.item.used)),
               ParseQuantity(subject.facts.resource, Written(subject.item.hard)))
             = Float(<<>>, 0)
        /\ Evaluated("quota") =>
              /\ ~outcome.value.raised
              /\ PairIssues("critical") = 0
              /\ PairIssues("warning") = 0
        /\ Evaluated("constraints") =>
              /\ \A i \in DOMAIN outcome.value.issues :
                    outcome.value.issues[i] # subject.facts.resource
              /\ outcome.value.recommendations = <<>>
        /\ RemainingReported

\* C13, witness: the monitor has evaluated a quota whose first resource has
\* the hard limit 0 and a positive use, and reported the second resource
C13_Witness ==
    /\ Evaluated("quota")
    /\ subject.facts.hard = 0
    /\ subject.facts.used > 0
    /\ RemainingReported

\* C14: a deployment with fewer ready than desired replicas yields exactly
\* one deployment_unhealthy issue, critical when no replica is ready and
\* warning otherwise; a deployment with at least the desired replicas ready
\* yields none. An absent count reads as 0.
C14_ReplicaDeficit ==
    Evaluated("deployment") =>
        LET d == subject.facts.replicas
            r == subject.facts.ready_replicas
        IN /\ ~outcome.value.raised
           /\ IssuesOf("deployment_unhealthy", "critical") =
                 (IF r < d /\ r = 0 THEN 1 ELSE 0)
           /\ IssuesOf("deployment_unhealthy", "warning") =
                 (IF 0 < r /\ r < d THEN 1 ELSE 0)
           /\ IssuesOf("deployment_unhealthy", "info") = 0

\* C14, witness: a deployment with 3 desired replicas and no ready count has
\* been evaluated and reported as critical
C14_Witness ==
    /\ Evaluated("deployment")
    /\ subject.facts.replicas = 3
    /\ "ready_replicas" \notin DOMAIN subject.item
    /\ IssuesOf("deployment_unhealthy", "critical") = 1

\* C15: a deployment yields an info deployment_old issue exactly when the
\* time since its creation is longer than max_deployment_age_days days
\* (default 90), the time being measured as elapsed time: 90 days and 12
\* hours against 90 days is too old, exactly 90 days is not.
C15_AgeIsElapsedTime ==
    Evaluated("deployment") =>
        IssuesOf("deployment_old", "info") =
            (IF subject.facts.days * 24 + subject.facts.hours >
                    Threshold("max_deployment_age_days", 90) * 24
             THEN 1 ELSE 0)

\* the issues that the pod rule returned for the phase of the pod
PhaseIssues == IssuesOf("pod_failed", "critical") + IssuesOf("pod_pending", "warning")

\* C16: a Failed pod yields exactly one critical pod_failed issue; a Pending
\* pod yields exactly one warning pod_pending issue when its age is above
\* the pending grace period (default 300 seconds) and none otherwise; any
\* other phase yields no phase issue; no pod yields both.
C16_PodPhase ==
    Evaluated("pod") =>
        /\ ~outcome.value.raised
        /\ IssuesOf("pod_failed", "critical") =
              (IF subject.item.phase = "Failed" THEN 1 ELSE 0)
        /\ IssuesOf("pod_pending", "warning") =
              (IF /\ subject.item.phase = "Pending"
                  /\ subject.item.age_seconds >
                         Threshold("pod_pending_grace_seconds", 300)
               THEN 1 ELSE 0)
        /\ PhaseIssues <= 1
        /\ \A i \in DOMAIN outcome.value.issues :
              /\ outcome.value.issues[i].type = "pod_failed"
                    => outcome.value.issues[i].severity = "critical"
              /\ outcome.value.issues[i].type = "pod_pending"
                    => outcome.value.issues[i].severity = "warning"

\* C17: whatever the phase of the pod, each container whose restart count
\* is above max_container_restarts (default 5) yields exactly one warning
\* high_restart_count issue and every other container none; these issues
\* come in addition to the phase issue of the pod.
C17_RestartCount ==
    Evaluated("pod") =>
        /\ \A k \in DOMAIN subject.item.container_statuses :
              Count(outcome.value.issues,
                    LAMBDA i : /\ i.type = "high_restart_count"
                               /\ i.resource =
                                    <<RuleNamespace, subject.item.name,
                                      subject.item.container_statuses[k].name>>)
              = (IF subject.item.container_statuses[k].restart_count >
                        Threshold("max_container_restarts", 5)
                 THEN 1 ELSE 0)
        /\ IssuesOf("high_restart_count", "warning") =
              RestartsAbove(Threshold("max_container_restarts", 5))
        /\ Len(outcome.value.issues) =
              PhaseIssues + IssuesOf("high_restart_count", "warning")

\* C17, witness: a Failed pod with one container above the default limit
\* and one at the limit has been evaluated: one pod_failed issue and one
\* high_restart_count issue
C17_Witness ==
    /\ Evaluated("pod")
    /\ subject.thresholds = <<>>
    /\ subject.item.phase = "Failed"
    /\ Len(subject.item.container_statuses) = 2
    /\ subject.item.container_statuses[1].restart_count = 6
    /\ subject.item.container_statuses[2].restart_count = 5
    /\ IssuesOf("pod_failed", "critical") = 1
    /\ IssuesOf("high_restart_count", "warning") = 1

\* the probe of a service failed: it raised RequestException (a timeout or
\* a connection failure) or returned a status other than the expected one
ProbeFailed(service) ==
    \/ service.probe.kind = "RequestException"
    \/ service.probe.status # service.expected_status

FailedProbes == Count(subject.item, ProbeFailed)

\* C18: every configured external service whose probe returns a status
\* other than the expected one, or raises, yields exactly one issue, which
\* the monitor marks critical; a service whose status is the expected one
\* yields none; the failing probe of a service does not keep the later
\* services from being probed.  The same for the dependency check of the
\* troubleshooting tool, whose entries name the service.
C18_ExternalProbes ==
    /\ Evaluated("services") =>
          /\ ~outcome.value.raised
          /\ \A k \in DOMAIN outcome.value.issues :
                /\ outcome.value.issues[k].severity = "critical"
                /\ outcome.value.issues[k].type \in
                      {"external_service_unhealthy", "external_service_unreachable"}
          /\ \A s \in DOMAIN subject.item :
                Count(outcome.value.issues,
                      LAMBDA i : i.resource = <<subject.item[s].name>>)
                = (IF ProbeFailed(subject.item[s]) THEN 1 ELSE 0)
          /\ Len(outcome.value.issues) = FailedProbes
    /\ Evaluated("dependencies") =>
          /\ \A s \in DOMAIN subject.item :
                Count(outcome.value.external_dependencies,
                      LAMBDA n : n = subject.item[s].name)
                = (IF ProbeFailed(subject.item[s]) THEN 1 ELSE 0)
          /\ Len(outcome.value.external_dependencies) = FailedProbes

\* C18, witness: the probe of the first of two services raised and the
\* second returned a status other than the expected one; the monitor
\* reported both, in order
C18_Witness ==
    /\ Evaluated("services")
    /\ Len(subject.item) = 2
    /\ subject.item[1].probe.kind = "RequestException"
    /\ subject.item[2].probe.kind = "ok"
    /\ subject.item[2].probe.status # subject.item[2].expected_status
    /\ outcome.value.issues =
          << Issue("external_service_unreachable", "critical", <<subject.item[1].name>>),
             Issue("external_service_unhealthy", "critical", <<subject.item[2].name>>) >>

\* the positions in all_issues of the report of the issues of a severity
PositionsOf(severity) ==
    {i \in DOMAIN report.all_issues : report.all_issues[i].severity = severity}

\* the j-th smallest of a set of positions
Nth(positions, j) ==
    CHOOSE p \in positions : Cardinality({q \in positions : q <= p}) = j

\* a bucket of the report holds the issues of its severity, in the order
\* of all_issues
IsSubsequenceOf(severity) ==
    LET bucket == report.issues_by_severity[severity]
    IN  /\ Len(bucket) = Cardinality(PositionsOf(severity))
        /\ \A j \in DOMAIN bucket :
              bucket[j] = report.all_issues[Nth(PositionsOf(severity), j)]

\* C19: in the report that run_health_checks returns, each of the buckets
\* critical, warning and info is the subsequence of all_issues with that
\* severity, in the order the issues were produced; every issue is in
\* exactly one bucket; total_issues is the length of all_issues and the
\* sum of the sizes of the three buckets.
C19_GroupedBySeverity ==
    ReportReturned =>
        /\ report.all_issues = all_issues
        /\ DOMAIN report.issues_by_severity = {"critical", "warning", "info"}
        /\ \A severity \in DOMAIN report.issues_by_severity :
              IsSubsequenceOf(severity)
        /\ \A i \in DOMAIN report.all_issues :
              Cardinality({severity \in DOMAIN report.issues_by_severity :
                             i \in PositionsOf(severity)}) = 1
        /\ report.total_issues = Len(report.all_issues)
        /\ report.total_issues = Len(report.issues_by_severity.critical)
                                   + Len(report.issues_by_severity.warning)
                                   + Len(report.issues_by_severity.info)

\* C19, witness: a report was returned whose issues of the three
\* severities are interleaved: the first issue is not critical, two
\* different critical issues are in the critical bucket, and a warning
\* and an info issue were produced between them
C19_Witness ==
    /\ ReportReturned
    /\ Len(report.issues_by_severity.critical) >= 2
    /\ report.issues_by_severity.critical[1] # report.issues_by_severity.critical[2]
    /\ report.all_issues[1].severity # "critical"
    /\ \E i, j \in PositionsOf("critical") :
          /\ (i + 1) \in PositionsOf("warning") \cup PositionsOf("info")
          /\ i + 1 < j
    /\ Len(report.issues_by_severity.warning) >= 1
    /\ Len(report.issues_by_severity.info) >= 1

\* C20: for an issue list of length n the message renders min(n, 10)
\* entries, which are the first min(n, 10) issues in the order of the
\* input, and ends with the note "... and n - 10 more issues" exactly when
\* n is above 10.
C20_FirstTenAndNote ==
    Evaluated("format") =>
        LET n == Len(subject.item)
            shown == IF n <= 10 THEN n ELSE 10
        IN  /\ Len(outcome.value.entries) = shown
            /\ \A i \in 1..shown : outcome.value.entries[i] = subject.item[i]
            /\ (outcome.value.more > 0) <=> (n > 10)
            /\ n > 10 => outcome.value.more = n - 10
            /\ n <= 10 => outcome.value.more = 0

\* C20, witness: a list of 15 different issues was rendered as its first
\* 10 issues and the note for 5 more
C20_Witness ==
    /\ Evaluated("format")
    /\ Len(subject.item) = 15
    /\ Cardinality(Range(subject.item)) = 15
    /\ outcome.value.entries = SubSeq(subject.item, 1, 10)
    /\ outcome.value.more = 5

\* C21: whatever the length of a bucket, what a send function is given for
\* it (the email body, the Slack text, the webhook payload) carries at most
\* 10 issues, the first 10 of the bucket.
C21_AlertsBounded ==
    \A i \in DOMAIN attempts :
        /\ Len(attempts[i].issues) <= 10
        /\ attempts[i].issues =
              Prefix(report.issues_by_severity[attempts[i].severity], 10)

\* a single-shot run that went through run_health_checks, the report and
\* send_alerts, and returned from main
OnceCompleted ==
    /\ mode = "once"
    /\ pc = "done"
    /\ ~interrupted
    /\ failure = "none"
    /\ written = 1

\* C22: the exit status of a completed single-shot run is non-zero when
\* the report holds at least one critical issue, and 0 when the report
\* holds no issue.
C22_ExitStatusReflectsIssues ==
    OnceCompleted =>
        /\ (report.issues_by_severity.critical # <<>> => exit_code # 0)
        /\ (report.total_issues = 0 => exit_code = 0)

\* a single-shot run whose startup succeeded and that main has returned
\* from, not stopped by an interrupt
OnceReturned ==
    /\ mode = "once"
    /\ pc = "done"
    /\ cycle = 1
    /\ ~interrupted

\* C23: a single-shot run whose startup succeeded has printed or written
\* its report when main returns, whatever listings of whatever namespaces
\* failed; a run ended by the write of the report itself, or by a quantity
\* that does not parse, is not a collector failure and is left out.
C23_ReportAlwaysProduced ==
    (OnceReturned /\ failure \notin {"write", "parse"}) => written = 1

\* an alert of the current send_alerts went out on some channel while a
\* pair that is gated on for the report has not been attempted
PartialDispatch ==
    /\ \E i \in DOMAIN attempts : attempts[i].outcome = "sent"
    /\ \E p \in DispatchPairs : Due(p[1], p[2]) /\ ~Attempted(p[1], p[2])

\* C24: when an interrupt has ended the loop of continuous mode, the
\* dispatch of the interrupted cycle is complete or was never started: no
\* alert went out on some channels while other channels that are gated on
\* were left out.
C24_NoPartialDispatch ==
    (mode = "continuous" /\ pc = "done" /\ interrupted) => ~PartialDispatch

C26_ParsersAgree ==
    Evaluated("utils_parse_memory") =>
        \A i \in DOMAIN subject.item :
            outcome.value[i] = _parse_memory(subject.item[i])

\* C27: the spellings of a quantity (n with the suffix Gi or Ti, 1024 * n
\* with the suffix below, down to the unsuffixed decimal count of bytes)
\* are all parsed by _parse_memory to the byte count of the quantity, and
\* the empty string to 0.
C27_SuffixesAgree ==
    Evaluated("parse_memory") =>
        \A i \in DOMAIN subject.item :
            outcome.value[i] = Number(Float(subject.facts.bytes, 0))

\* the issues of the listings of the i-th namespace of the command line in
\* the current pass
DeploymentIssuesOf(i) ==
    check_deployment_health(namespaces[i], snapshot[i].deployments, config.thresholds).issues
PodIssuesOf(i) ==
    check_pod_health(namespaces[i], snapshot[i].pods, config.thresholds).issues
QuotaIssuesOf(i) == check_resource_usage(namespaces[i], snapshot[i].quotas).issues
ExternalIssues == check_external_services(config.external_services, probes)

\* C28: the list of issues of a returned report is, for each namespace in
\* the order of the command line, its deployment issues, then its pod
\* issues, then its quota issues, and after the last namespace the issues
\* of the external services.
C28_IssueOrder ==
    ReportReturned =>
        report.all_issues =
            Flatten([i \in DOMAIN namespaces |->
                       DeploymentIssuesOf(i) \o PodIssuesOf(i) \o QuotaIssuesOf(i)])
            \o ExternalIssues

\* C28, witness: a report of two namespaces, payments before billing, the
\* first with deployment, pod and quota issues, the second with issues of
\* its own, and an issue of an external service
C28_Witness ==
    /\ ReportReturned
    /\ namespaces = <<"payments", "billing">>
    /\ DeploymentIssuesOf(1) # <<>> /\ PodIssuesOf(1) # <<>> /\ QuotaIssuesOf(1) # <<>>
    /\ DeploymentIssuesOf(2) # <<>> /\ PodIssuesOf(2) # <<>>
    /\ ExternalIssues # <<>>
    /\ report.total_issues >= 7

\* C29: in continuous mode the evaluation of a cycle starts only at startup
\* or from a sleep whose full interval has elapsed, and it starts with
\* nothing of the cycle before left (no issue collected, no report, no
\* attempt, no failure); the sleep is entered only from the end of a cycle
\* (dispatch and write over, or the handler of a caught failure) and counts
\* from zero, one tick at a time; the cycle number changes by one only.
C29_NoOverlap ==
    [][ mode = "continuous" =>
          /\ (pc' = "check_ns" /\ pc # "check_ns" =>
                 /\ pc = "start" \/ (pc = "sleep" /\ slept = Interval)
                 /\ cycle' = cycle + 1
                 /\ nsIdx' = 1 /\ all_issues' = <<>> /\ report' = NoReport
                 /\ attempts' = <<>> /\ failure' = "none")
          /\ (pc' = "sleep" /\ pc # "sleep" =>
                 pc \in {"write", "handler"} /\ slept' = 0 /\ cycle' = cycle)
          /\ (pc' = "sleep" /\ pc = "sleep" => slept' = slept + 1 /\ cycle' = cycle)
          /\ (cycle' # cycle => pc' = "check_ns" /\ pc # "check_ns") ]_vars

\* C29, witness: the second cycle is being dispatched after a first cycle
\* whose report was written
C29_Witness ==
    /\ mode = "continuous"
    /\ cycle = 2
    /\ written = 1
    /\ pc = "crit_slack"
    /\ attempts # <<>>

\* the positions of main inside send_alerts
SendAlertsPositions == {"send_enter", "crit_email", "crit_slack", "crit_webhook", "warn"}

\* C30: in single-shot mode the report of the run has been written or
\* printed whenever send_alerts is running or has raised; in continuous
\* mode the report of the current cycle has not been written while
\* send_alerts is running, and a cycle whose send_alerts raises leaves what
\* was written untouched, in that step and until the next cycle.
C30_WriteOrder ==
    /\ [](mode = "once" /\ (pc \in SendAlertsPositions \/ failure = "dispatch")
            => written = cycle)
    /\ [](mode = "continuous"
            /\ (pc \in SendAlertsPositions
                  \/ (failure = "dispatch" /\ pc \in {"handler", "sleep"}))
            => written < cycle)
    /\ [][(mode = "continuous" /\ failure = "dispatch" /\ pc \in {"handler", "sleep"})
            => written' = written]_vars
    /\ [][(mode = "continuous" /\ failure' = "dispatch" /\ failure # "dispatch")
            => written' = written]_vars

\* C30, witness: with --output the first cycle wrote its report, the
\* send_alerts of the second cycle raised, and the file still holds the
\* report of the first cycle during the sleep
C30_Witness ==
    /\ mode = "continuous"
    /\ output
    /\ cycle = 2
    /\ failure = "dispatch"
    /\ pc = "sleep"
    /\ written = 1

====
